---- MODULE Spec2Model ----
(***************************************************************************)
(* A model of stock_data.py: the per-ticker cycle                          *)
(* process_data(download_data(ticker)), the module-level driver that       *)
(* collects stats_list in batch or interactive mode, and store_json, the   *)
(* interactive negotiation of a storage file.                              *)
(*                                                                         *)
(* Python values are modelled as tagged records:                           *)
(*   [t |-> "null"]                      None / JSON null                  *)
(*   [t |-> "num", num |-> a, den |-> b] a number, as the reduced fraction *)
(*                                       a/b (b > 0)                       *)
(*   [t |-> "str", s |-> <<chars>>]      a string                          *)
(*   [t |-> "list", items |-> <<...>>]   a list                            *)
(*   [t |-> "obj", m |-> [key |-> v]]    a dict; m is <<>> for {}          *)
(* Strings are sequences of one-character strings, so that indexing,       *)
(* lower() and upper() are computed character by character.                *)
(***************************************************************************)
EXTENDS Integers, Sequences, FiniteSets, TLC

(***************************************************************************)
(* Bounds of the model.                                                    *)
(***************************************************************************)
\* the largest number of tickers of one run (argv[1:] or interactive inputs)
MaxTickers == 2
\* the longest chart list the network boundary returns during a whole run
MaxPoints == 2
\* the longest chart list of a single cycle examined on its own
MaxCyclePoints == 3

(***************************************************************************)
(* Strings: str.lower(), str.upper().                                      *)
(***************************************************************************)
LowerLetters == <<"a","b","c","d","e","f","g","h","i","j","k","l","m",
                  "n","o","p","q","r","s","t","u","v","w","x","y","z">>

UpperLetters == <<"A","B","C","D","E","F","G","H","I","J","K","L","M",
                  "N","O","P","Q","R","S","T","U","V","W","X","Y","Z">>

LowerChar(c) ==
    IF \E i \in DOMAIN UpperLetters : UpperLetters[i] = c
    THEN LowerLetters[CHOOSE i \in DOMAIN UpperLetters : UpperLetters[i] = c]
    ELSE c

UpperChar(c) ==
    IF \E i \in DOMAIN LowerLetters : LowerLetters[i] = c
    THEN UpperLetters[CHOOSE i \in DOMAIN LowerLetters : LowerLetters[i] = c]
    ELSE c

\* s.lower()
Lower(s) == [i \in DOMAIN s |-> LowerChar(s[i])]

\* s.upper()
Upper(s) == [i \in DOMAIN s |-> UpperChar(s[i])]

(***************************************************************************)
(* Python values.                                                          *)
(***************************************************************************)
JNull == [t |-> "null"]
JNum(n) == [t |-> "num", num |-> n, den |-> 1]
JStr(s) == [t |-> "str", s |-> s]
JList(items) == [t |-> "list", items |-> items]
JObj(m) == [t |-> "obj", m |-> m]

\* the empty dict {}, the failure sentinel of download_data and process_data
EmptyDict == JObj(<<>>)

\* the outcome of an expression: a value, or a raised exception
Ok(v) == [ok |-> TRUE, val |-> v, exc |-> "none"]
Raise(e) == [ok |-> FALSE, val |-> JNull, exc |-> e]

\* v[key] for a string key
Subscript(v, key) ==
    IF v.t = "obj"
    THEN IF key \in DOMAIN v.m THEN Ok(v.m[key]) ELSE Raise("KeyError")
    ELSE Raise("TypeError")

RECURSIVE SetToSeq(_)
SetToSeq(S) ==
    IF S = {} THEN <<>>
    ELSE LET x == CHOOSE x \in S : TRUE IN <<x>> \o SetToSeq(S \ {x})

\* the elements "for day in v" visits: a list's items, a dict's keys, a
\* string's characters; anything else is not iterable
Iterate(v) ==
    CASE v.t = "list" -> Ok(v.items)
      [] v.t = "obj" -> Ok([i \in 1..Cardinality(DOMAIN v.m) |->
                               JStr(<<SetToSeq(DOMAIN v.m)[i]>>)])
      [] v.t = "str" -> Ok([i \in DOMAIN v.s |-> JStr(<<v.s[i]>>)])
      [] OTHER -> Raise("TypeError")

(***************************************************************************)
(* Numbers: fractions in lowest terms.                                     *)
(***************************************************************************)
Abs(a) == IF a < 0 THEN -a ELSE a

RECURSIVE Gcd(_, _)
Gcd(a, b) == IF b = 0 THEN a ELSE Gcd(b, a % b)

\* the number a/b (b > 0) in lowest terms
Frac(a, b) ==
    LET g == Gcd(Abs(a), b)
    IN  [t |-> "num", num |-> a \div g, den |-> b \div g]

\* x < y and x <= y on numbers
NumLess(x, y) == x.num * y.den < y.num * x.den
NumLeq(x, y) == x.num * y.den <= y.num * x.den

NumAdd(x, y) == Frac(x.num * y.den + y.num * x.den, x.den * y.den)

NumDiv(x, k) == Frac(x.num, x.den * k)

IsNum(v) == v.t = "num"

(***************************************************************************)
(* list.sort(), statistics.mean, statistics.median.                        *)
(***************************************************************************)
RECURSIVE Insert(_, _)
Insert(x, s) ==
    IF s = <<>> THEN <<x>>
    ELSE IF NumLess(x, Head(s)) THEN <<x>> \o s
    ELSE <<Head(s)>> \o Insert(x, Tail(s))

RECURSIVE SortNums(_)
SortNums(s) == IF s = <<>> THEN <<>> ELSE Insert(s[Len(s)], SortNums(SubSeq(s, 1, Len(s) - 1)))

\* closing_prices.sort(): comparing None with anything raises TypeError; a
\* list of fewer than two elements is sorted without any comparison
PySort(s) ==
    IF Len(s) >= 2 /\ \E i \in DOMAIN s : ~IsNum(s[i])
    THEN Raise("TypeError")
    ELSE IF Len(s) < 2 THEN Ok(JList(s))
    ELSE Ok(JList(SortNums(s)))

RECURSIVE SumNums(_)
SumNums(s) == IF s = <<>> THEN JNum(0) ELSE NumAdd(Head(s), SumNums(Tail(s)))

\* statistics.mean(s)
PyMean(s) ==
    IF s = <<>> THEN Raise("StatisticsError")
    ELSE IF \E i \in DOMAIN s : ~IsNum(s[i]) THEN Raise("TypeError")
    ELSE Ok(NumDiv(SumNums(s), Len(s)))

\* statistics.median_high(s) in the place of statistics.median(s): the
\* upper of the two middle elements of an even count
PyMedianHigh(s) ==
    IF s = <<>> THEN Raise("StatisticsError")
    ELSE LET srt == PySort(s)
         IN  IF ~srt.ok THEN srt ELSE Ok(srt.val.items[(Len(s) \div 2) + 1])

\* statistics.median(s): sorts, then the middle element of an odd count and
\* (data[i - 1] + data[i]) / 2 with i = n // 2 of an even count
PyMedian(s) ==
    IF s = <<>> THEN Raise("StatisticsError")
    ELSE LET srt == PySort(s)
             n == Len(s)
         IN  IF ~srt.ok THEN srt
             ELSE IF n % 2 = 1 THEN Ok(srt.val.items[(n \div 2) + 1])
             ELSE IF \E i \in DOMAIN s : ~IsNum(s[i]) THEN Raise("TypeError")
             ELSE Ok(NumDiv(NumAdd(srt.val.items[n \div 2],
                                   srt.val.items[(n \div 2) + 1]), 2))

(***************************************************************************)
(* The network boundary.  A response to the request of one ticker is       *)
(*   [kind |-> "unreachable"]  urlopen(...).read() raises                  *)
(*   [kind |-> "notgzip"]      bytes that decompress() rejects             *)
(*   [kind |-> "notjson"]      gzip bytes that loads() rejects             *)
(*   [kind |-> "json", doc |-> v]  gzip bytes of the JSON value v          *)
(***************************************************************************)
MsgUnreachable == "The server could not be reached"
MsgNotGzip == "The data was not compressed with gzip or could not be decompressed"
MsgNoTicker == "The ticker does not exist"
MsgNotJson == "The data format is not in json or there is no data"
MsgNotParsed == "The data could not be parsed"

\* what a function call produces: its return value, or the exception that
\* leaves it, and the diagnostics it printed
Return(v, out) == [ok |-> TRUE, val |-> v, exc |-> "none", out |-> out]
Throw(e, out) == [ok |-> FALSE, val |-> JNull, exc |-> e, out |-> out]

\* the request URL is built from ticker.upper(); the response is the
\* network's answer to that request
RequestSymbol(tk) == Upper(tk)

\* download_data without the check of line 69
download_data_unchecked(tk, answer) ==
    IF answer.kind = "unreachable" THEN Return(EmptyDict, <<MsgUnreachable>>)
    ELSE IF answer.kind = "notgzip" THEN Return(EmptyDict, <<MsgNotGzip>>)
    ELSE IF answer.kind = "notjson" THEN Return(EmptyDict, <<MsgNotJson>>)
    ELSE LET inner == Subscript(answer.doc, "data")
         IN  IF ~inner.ok THEN Return(EmptyDict, <<MsgNotJson>>)
             ELSE Return(inner.val, <<>>)

\* download_data without the try/except of lines 51-57
download_data_unguarded(tk, answer) ==
    IF answer.kind = "unreachable" THEN Throw("URLError", <<>>)
    ELSE IF answer.kind = "notgzip" THEN Return(EmptyDict, <<MsgNotGzip>>)
    ELSE IF answer.kind = "notjson" THEN Return(EmptyDict, <<MsgNotJson>>)
    ELSE LET doc == answer.doc
             status == Subscript(doc, "status")
             rCode == IF status.ok THEN Subscript(status.val, "rCode") ELSE status
             inner == Subscript(doc, "data")
         IN  IF ~rCode.ok THEN Return(EmptyDict, <<MsgNotJson>>)
             ELSE IF rCode.val # JNum(200) THEN Return(EmptyDict, <<MsgNoTicker>>)
             ELSE IF ~inner.ok THEN Return(EmptyDict, <<MsgNotJson>>)
             ELSE Return(inner.val, <<>>)

download_data(tk, answer) ==
    IF answer.kind = "unreachable" THEN Return(EmptyDict, <<MsgUnreachable>>)
    ELSE IF answer.kind = "notgzip" THEN Return(EmptyDict, <<MsgNotGzip>>)
    ELSE IF answer.kind = "notjson" THEN Return(EmptyDict, <<MsgNotJson>>)
    ELSE LET doc == answer.doc
             status == Subscript(doc, "status")
             rCode == IF status.ok THEN Subscript(status.val, "rCode") ELSE status
             inner == Subscript(doc, "data")
         IN  IF ~rCode.ok THEN Return(EmptyDict, <<MsgNotJson>>)
             ELSE IF rCode.val # JNum(200) THEN Return(EmptyDict, <<MsgNoTicker>>)
             ELSE IF ~inner.ok THEN Return(EmptyDict, <<MsgNotJson>>)
             ELSE Return(inner.val, <<>>)

\* the loop "for day in chart: closing_prices.append(day["y"])"
RECURSIVE ClosingPrices(_)
ClosingPrices(days) ==
    IF days = <<>> THEN Ok(JList(<<>>))
    ELSE LET y == Subscript(Head(days), "y")
             rest == ClosingPrices(Tail(days))
         IN  IF ~y.ok THEN y
             ELSE IF ~rest.ok THEN rest
             ELSE Ok(JList(<<y.val>> \o rest.val.items))

\* SortedClosingPrices without closing_prices.sort() of line 92
SortedClosingPricesUnsorted(d) ==
    LET chart == Subscript(d, "chart")
        days == IF chart.ok THEN Iterate(chart.val) ELSE chart
    IN  IF days.ok THEN ClosingPrices(days.val) ELSE days

\* lines 87-95: the sorted closing prices, or the exception the try catches
SortedClosingPrices(d) ==
    LET chart == Subscript(d, "chart")
        days == IF chart.ok THEN Iterate(chart.val) ELSE chart
        prices == IF days.ok THEN ClosingPrices(days.val) ELSE days
    IN  IF prices.ok THEN PySort(prices.val.items) ELSE prices

\* lines 97-104: the stats dict literal, evaluated key by key
StatsOf(closing_prices, d) ==
    LET avg == PyMean(closing_prices)
        med == PyMedian(closing_prices)
        sym == Subscript(d, "symbol")
    IN  IF closing_prices = <<>> THEN Raise("IndexError")
        ELSE IF ~avg.ok THEN avg
        ELSE IF ~med.ok THEN med
        ELSE IF ~sym.ok THEN sym
        ELSE Ok(JObj([min |-> closing_prices[1],
                      max |-> closing_prices[Len(closing_prices)],
                      avg |-> avg.val,
                      median |-> med.val,
                      ticker |-> sym.val]))

process_data(d) ==
    IF d = EmptyDict THEN Return(EmptyDict, <<>>)
    ELSE LET sorted == SortedClosingPrices(d)
             made == StatsOf(sorted.val.items, d)
         IN  IF ~sorted.ok THEN Return(EmptyDict, <<MsgNotParsed>>)
             ELSE IF ~made.ok THEN Throw(made.exc, <<>>)
             ELSE Return(made.val, <<>>)

\* process_data(download_data(ticker)) on the response resp
Cycle(tk, answer) ==
    LET d == download_data(tk, answer)
        p == process_data(d.val)
    IN  IF ~d.ok THEN d ELSE [p EXCEPT !.out = d.out \o p.out]

\* "if stats:" - a dict is true when it is not empty
Truthy(v) == v # EmptyDict

(***************************************************************************)
(* The inputs of the model: what the network, the command line and the     *)
(* operator can supply.                                                    *)
(***************************************************************************)
SeqsUpTo(S, n) == UNION {[1..k -> S] : k \in 0..n}

\* the elements of a chart list: points with a closing price, a point whose
\* closing price is null, a point without the closing-price field
PointVals(prices) ==
    {JObj([y |-> JNum(v)]) : v \in prices} \cup {JObj([y |-> JNull]), JObj([x |-> JNum(1)])}

\* data.chart: a list of at most n points, or null
ChartVals(prices, n) == {JList(c) : c \in SeqsUpTo(PointVals(prices), n)} \cup {JNull}

\* the charts of the responses of a whole run, and of a cycle on its own
RunCharts == ChartVals({10, 20}, MaxPoints)
CycleCharts == ChartVals({10, 20, 30}, MaxCyclePoints)

\* the envelope's data member for the request of ticker: a dict with or
\* without chart and symbol, the empty dict, or null
DataVals(tk, charts) ==
    LET sym == JStr(RequestSymbol(tk))
    IN  {JObj([chart |-> c, symbol |-> sym]) : c \in charts}
        \cup {JObj([chart |-> c]) : c \in charts}
        \cup {JObj([symbol |-> sym]), EmptyDict, JNull}

\* the envelope's status member
StatusVals ==
    {JObj([rCode |-> c]) : c \in {JNum(200), JNum(404), JNull}} \cup {EmptyDict, JNull}

\* the decompressed JSON documents
Docs(tk, charts) ==
    {JObj([status |-> st, data |-> d]) : st \in StatusVals, d \in DataVals(tk, charts)}
    \cup {JObj([data |-> d]) : d \in DataVals(tk, charts)}
    \cup {JObj([status |-> st]) : st \in StatusVals}
    \cup {JList(<<>>)}

Responses(tk, charts) ==
    {[kind |-> "unreachable"], [kind |-> "notgzip"], [kind |-> "notjson"]}
    \cup {[kind |-> "json", doc |-> d] : d \in Docs(tk, charts)}

Script == <<"s","t","o","c","k","_","d","a","t","a",".","p","y">>
Stop == <<"S","T","O","P">>
Cancel == <<"c","a","n","c","e","l">>

\* ticker symbols of the command line
ArgTickers == {<<"m","s","f","t">>, <<"s","t","o","p">>}

\* what the operator types at the ticker prompt
TickerInputs == {<<"m","s","f","t">>, <<"s","t","o","p">>, <<"S","t","o","p">>}

\* a file that exists when the run starts, and one that does not
FileA == <<"a">>
FileB == <<"b">>

\* what the operator types at the name prompt
NameInputs == {FileA, FileB, Cancel, <<"C","a","n","c","e","l">>}

\* what the operator types at the overwrite prompt
ResponseInputs == {<<>>, <<"y">>, <<"Y","e","s">>, <<"n">>, <<"N","o">>, <<"x">>}

(***************************************************************************)
(* The state.                                                              *)
(***************************************************************************)
VARIABLES
    pc,          \* where the program is: "main", "AwaitingName",
                 \* "ConfirmOverwrite", "Writing", "Returned", "Crashed"
    argv,        \* sys.argv
    next_arg,    \* the position in argv of the next ticker of the for loop
    ticker,      \* the module-level variable ticker
    stats,       \* the module-level variable stats
    stats_list,  \* the module-level list stats_list
    exc,         \* the exception that ended the run, "none" while it runs
    out,         \* the diagnostics printed by the last step
    prompt,      \* the prompt of the input() the program waits in
    file,        \* store_json's file
    file_name,   \* store_json's file_name
    response,    \* store_json's response
    fs,          \* the contents of the files of the working directory
    handles,     \* the open file handles of the process
    cycles,      \* history: the outcome of every cycle run so far
    resp,        \* the network's response to the request in flight
    data,        \* the value download_data returned, until process_data
                 \* has consumed it
    attempt,     \* the open(file_name, "w") the last step made and how the
                 \* filesystem answered it, None when it made none
    opened,      \* history: the names store_json has opened for writing
    dumps        \* history: the dump() calls made, with target and data

vars == <<pc, argv, next_arg, ticker, stats, stats_list, exc, out, prompt,
          file, file_name, response, fs, handles, cycles, resp, data,
          attempt, opened, dumps>>

main_vars == <<argv, next_arg, ticker, stats, stats_list, cycles, resp, data>>
store_vars == <<file, file_name, response, fs, handles, attempt, opened, dumps>>

PromptTicker == "Enter a ticker symbol or \"stop\" to proceed: "
PromptName == "Enter a name for a storage file or \"cancel\" to quit: "
PromptOverwrite == "A file with that name already exists.\nAre you sure you want to overwrite it (yes or no)? "
PromptInvalid == "Your response was invalid.\nAre you sure you want to overwrite the file (yes or no)? "
MsgNotWritable == "The file could not be written to"
MsgNotDumped == "The json data could not be written to the file"

\* file contents
Absent == [st |-> "absent"]
Old == [st |-> "old"]
Truncated == [st |-> "empty"]
Partial == [st |-> "partial"]
Dumped(json_data) == [st |-> "json", data |-> json_data]

\* a file object
FileObj(name, mode, closed) == [t |-> "file", name |-> name, mode |-> mode, closed |-> closed]

\* the working directory when the run starts
InitialFs == [n \in NameInputs |-> IF n = FileA THEN Old ELSE Absent]

BatchMode == Len(argv) > 1

Init ==
    /\ argv \in {<<Script>> \o a : a \in SeqsUpTo(ArgTickers, MaxTickers)}
    /\ pc = "main"
    /\ next_arg = 2
    /\ ticker = <<>>
    /\ stats = JNull
    /\ stats_list = <<>>
    /\ exc = "none"
    /\ out = <<>>
    /\ prompt = IF Len(argv) > 1 THEN "none" ELSE PromptTicker
    /\ file = JNull
    /\ file_name = <<>>
    /\ response = <<>>
    /\ fs = InitialFs
    /\ handles = {}
    /\ cycles = <<>>
    /\ resp = JNull
    /\ data = JNull
    /\ attempt = JNull
    /\ opened = <<>>
    /\ dumps = <<>>

(***************************************************************************)
(* The driver, lines 154-178.                                              *)
(***************************************************************************)
\* RunCycle without the test "if stats:" of lines 160 and 169
RunCycleAppendAlways(tk, answer, after) ==
    LET r == Cycle(tk, answer)
    IN  /\ UNCHANGED <<resp, data>>
        /\ cycles' = Append(cycles, [ticker |-> tk, kind |-> answer.kind, ok |-> r.ok,
                                   val |-> r.val, exc |-> r.exc])
        /\ out' = r.out
        /\ IF r.ok
           THEN /\ stats' = r.val
                /\ stats_list' = Append(stats_list, r.val)
                /\ exc' = "none"
                /\ pc' = after
                /\ prompt' = IF after = "AwaitingName" THEN PromptName ELSE prompt
           ELSE /\ UNCHANGED <<stats, stats_list, prompt>>
                /\ exc' = r.exc
                /\ pc' = "Crashed"

\* lines 159-161 and 168-170: one cycle and the append; after is the
\* position the program goes to when the cycle returns.  The call is one
\* step here, so the value passed from download_data to process_data is
\* never visible between two steps: resp and data stay as they are.
RunCycle(tk, answer, after) ==
    LET r == Cycle(tk, answer)
    IN  /\ UNCHANGED <<resp, data>>
        /\ cycles' = Append(cycles, [ticker |-> tk, kind |-> answer.kind, ok |-> r.ok,
                                   val |-> r.val, exc |-> r.exc])
        /\ out' = r.out
        /\ IF r.ok
           THEN /\ stats' = r.val
                /\ stats_list' = IF Truthy(r.val) THEN Append(stats_list, r.val) ELSE stats_list
                /\ exc' = "none"
                /\ pc' = after
                /\ prompt' = IF after = "AwaitingName" THEN PromptName ELSE prompt
           ELSE /\ UNCHANGED <<stats, stats_list, prompt>>
                /\ exc' = r.exc
                /\ pc' = "Crashed"

\* store_json(stats_list) is called and reaches its first input()
EnterStore ==
    /\ pc' = "AwaitingName"
    /\ prompt' = PromptName

\* batch mode: one iteration of "for ticker in argv[1:]"; after the last
\* one the data is printed and store_json is entered
ProcessArg ==
    /\ pc = "main"
    /\ BatchMode
    /\ next_arg <= Len(argv)
    /\ \E r \in Responses(argv[next_arg], RunCharts) :
          RunCycle(argv[next_arg], r,
                   IF next_arg = Len(argv) THEN "AwaitingName" ELSE "main")
    /\ ticker' = argv[next_arg]
    /\ next_arg' = next_arg + 1
    /\ UNCHANGED <<argv, store_vars>>

\* interactive mode: the operator enters a ticker symbol
EnterTicker ==
    /\ pc = "main"
    /\ ~BatchMode
    /\ Len(cycles) < MaxTickers
    /\ \E typed \in TickerInputs :
          /\ ticker' = Upper(typed)
          /\ ticker' # Stop
          /\ \E r \in Responses(ticker', RunCharts) : RunCycle(ticker', r, "main")
    /\ UNCHANGED <<argv, next_arg, store_vars>>

\* interactive mode: the operator enters "stop"
EnterStop ==
    /\ pc = "main"
    /\ ~BatchMode
    /\ \E typed \in TickerInputs :
          /\ ticker' = Upper(typed)
          /\ ticker' = Stop
    /\ EnterStore
    /\ out' = <<>>
    /\ UNCHANGED <<argv, next_arg, stats, stats_list, exc, cycles, resp, data, store_vars>>

(***************************************************************************)
(* store_json, lines 108-151.                                              *)
(***************************************************************************)
\* open(name, "r") succeeds when the file exists
Exists(name) == fs[name] # Absent

\* file = open(name, "w") inside try/except: when the filesystem grants the
\* open, the file is created or truncated and the while loop ends with the
\* target; when it denies it, the diagnostic is printed, file is None and
\* the loop prompts for a name again
OpenForWriting(name, granted, path) ==
    /\ attempt' = [name |-> name, path |-> path, granted |-> granted]
    /\ IF granted
       THEN /\ file' = FileObj(name, "w", FALSE)
            /\ fs' = [fs EXCEPT ![name] = Truncated]
            /\ handles' = handles \cup {FileObj(name, "w", FALSE)}
            /\ opened' = Append(opened, name)
            /\ out' = <<>>
            /\ prompt' = "none"
            /\ pc' = "Writing"
       ELSE /\ file' = JNull
            /\ out' = <<MsgNotWritable>>
            /\ prompt' = PromptName
            /\ pc' = "AwaitingName"
            /\ UNCHANGED <<fs, handles, opened>>

\* the cancel test without .lower()
IsCancelExact(name) == name = Cancel

\* lines 113 and 116: file_name.lower() != "cancel" is false
IsCancel(name) == Lower(name) = Cancel

\* line 124: the lowercased response is neither a yes nor a no; response[0]
\* of the empty response raises IndexError
InvalidResponse(r) == r[1] # "y" /\ r[1] # "n"

\* the test of line 128 inverted
OverwriteConfirmedInverted(r) == r[1] # "y"

\* line 128: response[0] == "y"
OverwriteConfirmed(r) == r[1] = "y"

\* OverwriteFile without "file = None" in the except of lines 131-133: the
\* closed probe stays in file and ends the while loop
OverwriteFileKeepsProbe(name, granted) ==
    IF granted
    THEN OpenForWriting(name, TRUE, "overwrite")
    ELSE /\ attempt' = [name |-> name, path |-> "overwrite", granted |-> FALSE]
         /\ out' = <<MsgNotWritable>>
         /\ prompt' = "none"
         /\ pc' = "Writing"
         /\ UNCHANGED <<file, fs, handles, opened>>

\* lines 128-133: the overwrite the operator confirmed
OverwriteFile(name, granted) == OpenForWriting(name, granted, "overwrite")

\* CreateFile with open(file_name, "w") of line 140 not assigned to file:
\* the file is created, but the while loop sees no target and goes on
CreateFileUnassigned(name, granted) ==
    IF ~granted
    THEN OpenForWriting(name, FALSE, "create")
    ELSE /\ attempt' = [name |-> name, path |-> "create", granted |-> TRUE]
         /\ file' = JNull
         /\ fs' = [fs EXCEPT ![name] = Truncated]
         /\ handles' = handles \cup {FileObj(name, "w", FALSE)}
         /\ opened' = Append(opened, name)
         /\ out' = <<>>
         /\ prompt' = PromptName
         /\ pc' = "AwaitingName"

\* lines 137-143: the handler of every exception of lines 118-135
CreateFile(name, granted) == OpenForWriting(name, granted, "create")

\* lines 113-120: the operator enters a name at the name prompt
EnterName ==
    /\ pc = "AwaitingName"
    /\ \E typed \in NameInputs :
          /\ file_name' = typed
          /\ IF IsCancel(typed)
             THEN \* the loop ends with file = None and nothing is written
                  /\ pc' = "Returned"
                  /\ prompt' = "none"
                  /\ out' = <<>>
                  /\ attempt' = JNull
                  /\ UNCHANGED <<file, fs, handles, opened>>
             ELSE IF Exists(typed)
             THEN \* the probe is opened and closed, the question is asked
                  /\ file' = FileObj(typed, "r", TRUE)
                  /\ pc' = "ConfirmOverwrite"
                  /\ prompt' = PromptOverwrite
                  /\ out' = <<>>
                  /\ attempt' = JNull
                  /\ UNCHANGED <<fs, handles, opened>>
             ELSE \* open(file_name, "r") raises
                  \E granted \in BOOLEAN : CreateFile(typed, granted)
    /\ UNCHANGED <<main_vars, exc, response, dumps>>

\* lines 123-135: the operator answers the overwrite question
Respond ==
    /\ pc = "ConfirmOverwrite"
    /\ \E typed \in ResponseInputs :
          /\ response' = Lower(typed)
          /\ IF response' = <<>>
             THEN \* response[0] raises IndexError inside the try of line 117
                  \E granted \in BOOLEAN : CreateFile(file_name, granted)
             ELSE IF InvalidResponse(response')
             THEN /\ prompt' = PromptInvalid
                  /\ out' = <<>>
                  /\ attempt' = JNull
                  /\ UNCHANGED <<pc, file, fs, handles, opened>>
             ELSE IF OverwriteConfirmed(response')
             THEN \E granted \in BOOLEAN : OverwriteFile(file_name, granted)
             ELSE /\ file' = JNull
                  /\ pc' = "AwaitingName"
                  /\ prompt' = PromptName
                  /\ out' = <<>>
                  /\ attempt' = JNull
                  /\ UNCHANGED <<fs, handles, opened>>
    /\ UNCHANGED <<main_vars, exc, file_name, dumps>>

\* Serialize with file.close() inside the try of lines 147-150, after
\* dump(): a failing dump skips the close
SerializeCloseInTry ==
    /\ pc = "Writing"
    /\ file # JNull
    /\ \E dumped \in BOOLEAN :
          /\ fs' = [fs EXCEPT ![file.name] = IF dumped THEN Dumped(stats_list) ELSE Partial]
          /\ out' = IF dumped THEN <<>> ELSE <<MsgNotDumped>>
          /\ file' = IF dumped THEN [file EXCEPT !.closed = TRUE] ELSE file
          /\ handles' = IF dumped THEN handles \ {file} ELSE handles
    /\ dumps' = Append(dumps, [name |-> file.name, data |-> stats_list])
    /\ attempt' = JNull
    /\ pc' = "Returned"
    /\ prompt' = "none"
    /\ UNCHANGED <<main_vars, exc, file_name, response, opened>>

\* lines 145-151: dump(json_data, file) and file.close(); dump either
\* writes the whole list or fails part-way
Serialize ==
    /\ pc = "Writing"
    /\ file # JNull
    /\ \E dumped \in BOOLEAN :
          /\ fs' = [fs EXCEPT ![file.name] = IF dumped THEN Dumped(stats_list) ELSE Partial]
          /\ out' = IF dumped THEN <<>> ELSE <<MsgNotDumped>>
    /\ dumps' = Append(dumps, [name |-> file.name, data |-> stats_list])
    /\ file' = [file EXCEPT !.closed = TRUE]
    /\ handles' = handles \ {file}
    /\ attempt' = JNull
    /\ pc' = "Returned"
    /\ prompt' = "none"
    /\ UNCHANGED <<main_vars, exc, file_name, response, opened>>

Next ==
    \/ ProcessArg
    \/ EnterTicker
    \/ EnterStop
    \/ EnterName
    \/ Respond
    \/ Serialize

Spec == Init /\ [][Next]_vars

(***************************************************************************)
(* One cycle process_data(download_data(ticker)) on its own: the ticker    *)
(* and the network's response are drawn at the start, download_data and    *)
(* process_data are two steps, and the value passed from one to the other  *)
(* is visible in between.                                                  *)
(***************************************************************************)
InitCycle ==
    /\ pc = "download"
    /\ argv = <<Script>>
    /\ next_arg = 2
    /\ ticker \in ArgTickers \cup {<<"M","S","F","T">>}
    /\ resp \in Responses(ticker, CycleCharts)
    /\ data = JNull
    /\ stats = JNull
    /\ stats_list = <<>>
    /\ exc = "none"
    /\ out = <<>>
    /\ prompt = "none"
    /\ file = JNull
    /\ file_name = <<>>
    /\ response = <<>>
    /\ fs = InitialFs
    /\ handles = {}
    /\ cycles = <<>>
    /\ attempt = JNull
    /\ opened = <<>>
    /\ dumps = <<>>

\* lines 20-77: download_data(ticker) returns
Download ==
    /\ pc = "download"
    /\ LET d == download_data(ticker, resp)
       IN  /\ data' = d.val
           /\ out' = d.out
           /\ exc' = d.exc
           /\ pc' = IF d.ok THEN "process" ELSE "Crashed"
    /\ UNCHANGED <<argv, next_arg, ticker, stats, stats_list, prompt, cycles,
                   resp, store_vars>>

\* lines 80-106 and 160-161: process_data(data) returns or raises, and a
\* non-empty result is appended to stats_list
Process ==
    /\ pc = "process"
    /\ LET p == process_data(data)
       IN  /\ out' = out \o p.out
           /\ exc' = p.exc
           /\ cycles' = Append(cycles, [ticker |-> ticker, kind |-> resp.kind, ok |-> p.ok,
                                        val |-> p.val, exc |-> p.exc])
           /\ IF p.ok
              THEN /\ stats' = p.val
                   /\ stats_list' = IF Truthy(p.val) THEN Append(stats_list, p.val)
                                     ELSE stats_list
                   /\ pc' = "processed"
              ELSE /\ pc' = "Crashed"
                   /\ UNCHANGED <<stats, stats_list>>
    /\ UNCHANGED <<argv, next_arg, ticker, prompt, resp, data, store_vars>>

NextCycle ==
    \/ Download
    \/ Process

SpecCycle == InitCycle /\ [][NextCycle]_vars


(***************************************************************************)
(* The claims.                                                             *)
(***************************************************************************)

\* C1: a file that already exists under the entered name is opened for
\* writing (and so truncated) only in answer to the overwrite question for
\* that name, by a response whose first character is "y".
C1_NoSilentOverwrite ==
    [][\A n \in NameInputs :
          (fs[n] # Absent /\ fs'[n] # fs[n] /\ fs'[n] = Truncated)
              => /\ pc = "ConfirmOverwrite"
                 /\ file_name = n
                 /\ response' # <<>>
                 /\ response'[1] = "y"]_vars

\* C2: at the overwrite question, a response whose first character is
\* neither "y" nor "n" (the empty response included) only brings the
\* "invalid response" prompt; the question is left only by a response that
\* starts with "y" (to writing, or back to the name prompt when the open is
\* denied) or with "n" (back to the name prompt).
C2_ConfirmLeftOnlyByYesOrNo ==
    [][pc = "ConfirmOverwrite" =>
          IF response' # <<>> /\ response'[1] \in {"y", "n"}
          THEN pc' \in {"Writing", "AwaitingName"}
          ELSE pc' = "ConfirmOverwrite" /\ prompt' = PromptInvalid /\ fs' = fs]_vars

\* C3: every cycle ends with a stats record or the empty sentinel and
\* never raises, so the run never ends on an exception.
C3_CycleNeverRaises ==
    /\ pc # "Crashed"
    /\ exc = "none"
    /\ \A i \in DOMAIN cycles : cycles[i].ok /\ cycles[i].val.t = "obj"

\* the value passed to process_data carries an empty chart list
EmptyChart(d) == d.t = "obj" /\ "chart" \in DOMAIN d.m /\ d.m.chart = JList(<<>>)

\* C4: when the decoded data carries an empty chart list, process_data
\* returns the failure sentinel, no statistic is computed and nothing is
\* appended to stats_list.
C4_EmptySeriesIsSentinel ==
    (pc \in {"processed", "Crashed"} /\ EmptyChart(data))
        => (pc = "processed" /\ stats = EmptyDict /\ stats_list = <<>>)

\* d.chart is a list of points that all carry a numeric closing price
ValidPoints(d) ==
    /\ d.t = "obj"
    /\ "chart" \in DOMAIN d.m
    /\ d.m.chart.t = "list"
    /\ \A i \in DOMAIN d.m.chart.items :
          LET y == Subscript(d.m.chart.items[i], "y") IN y.ok /\ IsNum(y.val)

\* the response is a JSON object without a status member whose data.chart
\* is a list of valid points
LegacyShape ==
    /\ resp.kind = "json"
    /\ resp.doc.t = "obj"
    /\ "status" \notin DOMAIN resp.doc.m
    /\ "data" \in DOMAIN resp.doc.m
    /\ ValidPoints(resp.doc.m.data)

\* C5: a payload of the legacy shape (no status object, data.chart a list
\* of valid points) is decoded: download_data returns its data member.
C5_LegacyShapeDecoded ==
    (pc # "download" /\ LegacyShape) => data = resp.doc.m.data

\* C6: at the overwrite question, a response starting with "n" sends
\* store_json back to the name prompt, holding no file, and leaves every
\* file's contents as they were.
C6_NoKeepsFile ==
    [][(pc = "ConfirmOverwrite" /\ response' # <<>> /\ response'[1] = "n")
          => /\ pc' = "AwaitingName"
             /\ prompt' = PromptName
             /\ file' = JNull
             /\ fs' = fs
             /\ handles' = handles]_vars

\* a state C6 is about: the operator declined to overwrite FileA
C6_Witness ==
    /\ pc = "AwaitingName"
    /\ file_name = FileA
    /\ response # <<>>
    /\ response[1] = "n"
    /\ fs[FileA] = Old
    /\ file = JNull

\* C7: "cancel" in any letter case at the name prompt ends store_json, and
\* when store_json has ended this way no file was created, truncated or
\* written and no file is held.
C7_CancelWritesNothing ==
    /\ []((pc = "Returned" /\ Lower(file_name) = Cancel)
             => (fs = InitialFs /\ file = JNull /\ handles = {}))
    /\ [][(pc = "AwaitingName" /\ Lower(file_name') = Cancel) => pc' = "Returned"]_vars

\* a state C7 is about: the operator confirmed an overwrite that the
\* filesystem denied, and then cancelled in mixed case
C7_Witness ==
    /\ pc = "Returned"
    /\ file_name = <<"C","a","n","c","e","l">>
    /\ response # <<>>
    /\ response[1] = "y"

\* the response is a JSON object whose status.rCode exists and is not 200
StatusNot200 ==
    /\ resp.kind = "json"
    /\ LET status == Subscript(resp.doc, "status")
           rCode == IF status.ok THEN Subscript(status.val, "rCode") ELSE status
       IN  rCode.ok /\ rCode.val # JNum(200)

\* C8: a payload whose status.rCode is not 200 is rejected by
\* download_data with the empty sentinel and the diagnostic "ticker does
\* not exist", whatever data.chart contains, and no stats record is made.
C8_Not200Rejected ==
    (pc # "download" /\ StatusNot200)
        => /\ data = EmptyDict
           /\ out = <<MsgNoTicker>>
           /\ pc # "Crashed"
           /\ pc = "processed" => (stats = EmptyDict /\ stats_list = <<>>)

\* a state C8 is about: a rejected payload whose data would have made a
\* stats record
C8_Witness ==
    /\ pc = "processed"
    /\ StatusNot200
    /\ "data" \in DOMAIN resp.doc.m
    /\ ValidPoints(resp.doc.m.data)
    /\ LET p == process_data(resp.doc.m.data) IN p.ok /\ Truthy(p.val)

\* C9: every payload with a valid non-empty chart yields a stats record
\* tagged with the provider's symbol when the envelope supplies one, and
\* otherwise with the uppercased ticker of the request.
C9_RecordCarriesTicker ==
    (pc \in {"processed", "Crashed"} /\ ValidPoints(data) /\ ~EmptyChart(data))
        => /\ pc = "processed"
           /\ stats.t = "obj"
           /\ "ticker" \in DOMAIN stats.m
           /\ stats.m.ticker = IF "symbol" \in DOMAIN data.m THEN data.m.symbol
                               ELSE JStr(Upper(ticker))

\* the cycles that produced a stats record
Succeeded(c) == c.ok /\ c.val # EmptyDict

\* the records of the successful cycles, in the order of the requests
SuccessfulRecords ==
    LET done == SelectSeq(cycles, Succeeded)
    IN  [i \in DOMAIN done |-> done[i].val]

IsPrefix(s, t) == Len(s) <= Len(t) /\ SubSeq(t, 1, Len(s)) = s

\* C10: stats_list always holds exactly the records of the tickers
\* processed successfully so far, in request order, and it only ever grows
\* at its end: a failing ticker leaves it unchanged.
C10_StatsListInOrder ==
    /\ [](stats_list = SuccessfulRecords)
    /\ [][/\ IsPrefix(stats_list, stats_list')
          /\ Len(stats_list') <= Len(stats_list) + 1
          /\ (Len(cycles') > Len(cycles) /\ ~Succeeded(cycles'[Len(cycles')]))
                => stats_list' = stats_list]_vars

\* a state C10 is about: in interactive mode the first ticker failed with
\* the sentinel and the second one made the only record of stats_list
C10_Witness ==
    /\ ~BatchMode
    /\ Len(cycles) = 2
    /\ cycles[1].ok
    /\ cycles[1].val = EmptyDict
    /\ Succeeded(cycles[2])
    /\ stats_list = <<cycles[2].val>>

\* C11: a fetch that fails because the server could not be reached makes
\* the cycle return the empty sentinel with the diagnostic "server could
\* not be reached" and without raising; nothing is appended to stats_list,
\* and the run goes on with the next ticker (in batch mode the one after
\* it in argv, and store_json after the last): no ticker is skipped.
C11_FetchFailureIsSkipped ==
    /\ [](\A i \in DOMAIN cycles :
             cycles[i].kind = "unreachable" => (cycles[i].ok /\ cycles[i].val = EmptyDict))
    /\ [](BatchMode => \A i \in DOMAIN cycles : cycles[i].ticker = argv[i + 1])
    /\ []((BatchMode /\ pc \notin {"main", "Crashed"}) => Len(cycles) = Len(argv) - 1)
    /\ [][(Len(cycles') > Len(cycles) /\ cycles'[Len(cycles')].kind = "unreachable")
              => /\ stats_list' = stats_list
                 /\ out' = <<MsgUnreachable>>
                 /\ exc' = "none"
                 /\ IF BatchMode
                    THEN /\ next_arg' = next_arg + 1
                         /\ pc' = IF next_arg' <= Len(argv) THEN "main" ELSE "AwaitingName"
                    ELSE pc' = "main"]_vars

\* a state C11 is about: the fetch of the first ticker of a batch failed,
\* and the second ticker was fetched and processed into the only record
C11_Witness ==
    /\ BatchMode
    /\ Len(cycles) = 2
    /\ cycles[1].kind = "unreachable"
    /\ cycles[1].val = EmptyDict
    /\ cycles[2].kind = "json"
    /\ Succeeded(cycles[2])
    /\ stats_list = <<cycles[2].val>>

\* C12: when open(file_name, "w") is denied, on the path of a new file
\* and on the path of a confirmed overwrite alike, store_json prints "The
\* file could not be written to", holds no file, and is back at the name
\* prompt: it has not returned, no file was changed, no handle is left
\* open and dump() was not called; dump() is only ever called on a name
\* that was opened for writing.
C12_DeniedOpenReprompts ==
    /\ [][(attempt' # JNull /\ ~attempt'.granted)
              => /\ out' = <<MsgNotWritable>>
                 /\ file' = JNull
                 /\ pc' = "AwaitingName"
                 /\ prompt' = PromptName
                 /\ fs' = fs
                 /\ handles' = handles
                 /\ opened' = opened
                 /\ dumps' = dumps]_vars
    /\ [](\A i \in DOMAIN dumps : \E j \in DOMAIN opened : dumps[i].name = opened[j])

\* a state C12 is about: the operator confirmed the overwrite of FileA and
\* the filesystem denied the open
C12_Witness ==
    /\ pc = "AwaitingName"
    /\ attempt = [name |-> FileA, path |-> "overwrite", granted |-> FALSE]
    /\ response # <<>>
    /\ response[1] = "y"
    /\ file = JNull
    /\ fs = InitialFs

\* C13: whenever process_data returns a stats record, which it does for
\* every non-empty series of numeric closing prices that comes with a
\* symbol, the record satisfies min <= median <= max.
C13_MedianBetweenMinAndMax ==
    /\ (pc = "processed" /\ Truthy(stats))
          => (NumLeq(stats.m.min, stats.m.median) /\ NumLeq(stats.m.median, stats.m.max))
    /\ (pc \in {"processed", "Crashed"} /\ ValidPoints(data) /\ ~EmptyChart(data)
           /\ "symbol" \in DOMAIN data.m)
          => (pc = "processed" /\ Truthy(stats))

\* a state C13 is about: a record made from three closing prices that the
\* provider did not send in ascending order, with min < median < max
C13_Witness ==
    /\ pc = "processed"
    /\ Truthy(stats)
    /\ Len(data.m.chart.items) = 3
    /\ data.m.chart.items[1].m.y = JNum(20)
    /\ data.m.chart.items[2].m.y = JNum(30)
    /\ data.m.chart.items[3].m.y = JNum(10)
    /\ stats.m.min # stats.m.median
    /\ stats.m.median # stats.m.max

\* the closing prices of the chart of d, in the provider's order
Series(d) == [i \in DOMAIN d.m.chart.items |-> d.m.chart.items[i].m.y.num]

RECURSIVE SeriesSum(_)
SeriesSum(s) == IF s = <<>> THEN 0 ELSE Head(s) + SeriesSum(Tail(s))

\* the value at position k (from 1) of the series s sorted in ascending
\* order: fewer than k values are below it and at least k are not above it
Kth(s, k) ==
    CHOOSE v \in {s[i] : i \in DOMAIN s} :
        /\ Cardinality({i \in DOMAIN s : s[i] < v}) < k
        /\ k <= Cardinality({i \in DOMAIN s : s[i] <= v})

\* C14: for every non-empty series of numeric closing prices, in any
\* provider order, that comes with a symbol, process_data returns a record
\* with min the smallest value, max the largest, avg the arithmetic mean,
\* median the value at sorted index (n-1)/2 for odd n and the average of
\* the values at sorted indices n/2-1 and n/2 for even n, and ticker the
\* symbol; the points 10, 30, 20 with symbol MSFT give min 10, max 30,
\* avg 20, median 20, ticker MSFT.
C14_StatsValues ==
    (/\ pc \in {"processed", "Crashed"}
     /\ ValidPoints(data)
     /\ ~EmptyChart(data)
     /\ "symbol" \in DOMAIN data.m)
        => LET s == Series(data)
               n == Len(s)
           IN  /\ pc = "processed"
               /\ stats.t = "obj"
               /\ DOMAIN stats.m = {"min", "max", "avg", "median", "ticker"}
               /\ stats.m.min = JNum(Kth(s, 1))
               /\ \A i \in DOMAIN s : Kth(s, 1) <= s[i]
               /\ stats.m.max = JNum(Kth(s, n))
               /\ \A i \in DOMAIN s : s[i] <= Kth(s, n)
               /\ stats.m.avg.t = "num"
               /\ stats.m.avg.num * n = SeriesSum(s) * stats.m.avg.den
               /\ stats.m.median.t = "num"
               /\ IF n % 2 = 1
                  THEN stats.m.median = JNum(Kth(s, ((n - 1) \div 2) + 1))
                  ELSE stats.m.median.num * 2
                          = (Kth(s, n \div 2) + Kth(s, (n \div 2) + 1)) * stats.m.median.den
               /\ stats.m.ticker = data.m.symbol
               /\ (s = <<10, 30, 20>> /\ data.m.symbol = JStr(<<"M","S","F","T">>))
                     => stats = JObj([min |-> JNum(10), max |-> JNum(30), avg |-> JNum(20),
                                      median |-> JNum(20), ticker |-> JStr(<<"M","S","F","T">>)])

\* a state C14 is about: the record made from the points 10, 30, 20 with
\* the symbol MSFT
C14_Witness ==
    /\ pc = "processed"
    /\ ValidPoints(data)
    /\ ~EmptyChart(data)
    /\ Series(data) = <<10, 30, 20>>
    /\ data.m.symbol = JStr(<<"M","S","F","T">>)
    /\ stats.m.median = JNum(20)

\* C15: for a payload that passed the status check and whose chart is a
\* list of k >= 1 points, either every point carries a closing price and
\* process_data returns a record computed over exactly those k values
\* (none dropped, none duplicated), or some point carries none and
\* process_data returns the failure sentinel and nothing is appended.
C15_SeriesAllOrNothing ==
    (/\ pc \in {"processed", "Crashed"}
     /\ data.t = "obj"
     /\ "chart" \in DOMAIN data.m
     /\ data.m.chart.t = "list"
     /\ Len(data.m.chart.items) >= 1)
        => IF ValidPoints(data)
           THEN /\ pc = "processed"
                /\ Truthy(stats)
                /\ stats_list = <<stats>>
                /\ LET s == Series(data)
                   IN  /\ stats.m.min = JNum(Kth(s, 1))
                       /\ stats.m.max = JNum(Kth(s, Len(s)))
                       /\ stats.m.avg.num * Len(s) = SeriesSum(s) * stats.m.avg.den
           ELSE /\ pc = "processed"
                /\ stats = EmptyDict
                /\ stats_list = <<>>

\* C16: when store_json has returned, no file handle is open: the probe
\* of line 119 is closed before the overwrite question is asked, only
\* write targets are ever held open, and the write target is closed when
\* store_json returns; a dump() that fails prints "The json data could not
\* be written to the file", raises nothing, and the file is closed all the
\* same.
C16_HandlesClosed ==
    /\ [](pc = "Returned" => (handles = {} /\ (file # JNull => file.closed)))
    /\ [](pc = "ConfirmOverwrite" => (file = FileObj(file_name, "r", TRUE) /\ handles = {}))
    /\ [](\A h \in handles : h.mode = "w" /\ pc = "Writing" /\ h = file)
    /\ [][(pc = "Writing" /\ fs'[file.name] = Partial)
              => /\ out' = <<MsgNotDumped>>
                 /\ pc' = "Returned"
                 /\ exc' = "none"
                 /\ file' = FileObj(file.name, "w", TRUE)
                 /\ handles' = {}]_vars

\* a state C16 is about: FileA was probed, the overwrite was confirmed,
\* dump() failed part-way, and store_json has returned
C16_Witness ==
    /\ pc = "Returned"
    /\ file_name = FileA
    /\ response # <<>>
    /\ response[1] = "y"
    /\ fs[FileA] = Partial
    /\ out = <<MsgNotDumped>>
    /\ file = FileObj(FileA, "w", TRUE)

\* store_json has been called
Entered == pc \in {"AwaitingName", "ConfirmOverwrite", "Writing", "Returned"}

\* C17: every run enters store_json exactly once: a run that has ended has
\* entered it, once entered the driver loop is never resumed, it is entered
\* only when every ticker of the batch has had its cycle (in interactive
\* mode, when "stop" was entered), and the list it receives and dumps is
\* the whole batch, which may be empty.
C17_PersisterOncePerRun ==
    /\ [](pc \in {"Returned", "Crashed"} => Entered)
    /\ [][Entered => (Entered' /\ stats_list' = stats_list /\ cycles' = cycles)]_vars
    /\ [][(~Entered /\ Entered')
              => /\ pc' = "AwaitingName"
                 /\ IF BatchMode THEN Len(cycles') = Len(argv) - 1 ELSE ticker' = Stop]_vars
    /\ [](Entered => stats_list = SuccessfulRecords)
    /\ [](\A i \in DOMAIN dumps : dumps[i].data = stats_list)

\* store_json is in its while loop of lines 113-143
InNameLoop == pc \in {"AwaitingName", "ConfirmOverwrite"}

\* C18: store_json returns in exactly two ways.  Either the last name
\* entered is "cancel" in some letter case, no file is held, none was
\* opened for writing and dump() was not called; or the file opened for
\* writing under the last name entered is held, it is the only file that
\* was opened for writing, dump() was called exactly once, with the whole
\* stats_list and on that file, and no other file was changed.  At most
\* one file is opened for writing per call, and the name loop is left only
\* on "cancel" or with a granted open for writing.
C18_TwoWaysToReturn ==
    /\ [](pc = "Returned"
             => \/ /\ Lower(file_name) = Cancel
                   /\ file = JNull
                   /\ opened = <<>>
                   /\ dumps = <<>>
                \/ /\ Lower(file_name) # Cancel
                   /\ file = FileObj(file_name, "w", TRUE)
                   /\ opened = <<file_name>>
                   /\ dumps = <<[name |-> file_name, data |-> stats_list]>>
                   /\ fs[file_name] \in {Dumped(stats_list), Partial}
                   /\ \A n \in NameInputs \ {file_name} : fs[n] = InitialFs[n])
    /\ [](Len(opened) <= 1 /\ Len(dumps) <= 1)
    /\ [][(InNameLoop /\ ~InNameLoop')
              => \/ /\ pc' = "Returned"
                    /\ Lower(file_name') = Cancel
                    /\ file' = JNull
                 \/ /\ pc' = "Writing"
                    /\ file' = FileObj(file_name', "w", FALSE)
                    /\ attempt' # JNull
                    /\ attempt'.granted]_vars
    /\ [][pc = "Writing" => (pc' = "Returned" /\ Len(dumps') = 1)]_vars

\* a state C18 is about: store_json has returned after the new file FileB
\* was opened for writing and a batch of one record was dumped to it, the
\* existing FileA untouched
C18_Witness ==
    /\ pc = "Returned"
    /\ file_name = FileB
    /\ opened = <<FileB>>
    /\ Len(stats_list) = 1
    /\ fs[FileB] = Dumped(stats_list)
    /\ fs[FileA] = Old

====
